---- MODULE Spec2Model ----
(***************************************************************************)
(* Configuration resolution of the ComfyUI variant builder: the two        *)
(* ConfigLoader variants (config_loader_simple.py, config_loader_hiyapyco  *)
(* .py), their per-instance cache, and ComfyUIBuilder.validate_config.     *)
(*                                                                         *)
(* Values.  A YAML value is a tagged record: Str (a string), List (a       *)
(* sequence of values) or Dict (a mapping from keys to values).  A Python  *)
(* dict is a TLA+ function whose domain is its key set; {} is <<>>.        *)
(* A string is a sequence of tokens, so that startswith / endswith and     *)
(* slicing of the 'config-' prefix and the '.yaml' suffix are computed,    *)
(* not assumed.  Tokens other than "config-" and ".yaml" stand for text    *)
(* that contains neither.                                                  *)
(***************************************************************************)
EXTENDS Integers, Sequences, FiniteSets, TLC

VARIABLES
    loader,     \* which ConfigLoader class builder.py bound: "simple" | "hiyapyco"
    files,      \* the config directory: path -> parsed content of the YAML file
    _cache,     \* ConfigLoader._cache: config name -> resolved document
    last,       \* the operation that led to this state and its outcome
    resolved,   \* history: config name -> document of its first successful load_config
    edits,      \* number of changes made to the config directory so far
    mbase, moverride, mresult,  \* arguments and result of a direct _merge_dicts call
    nodes_dir,  \* NodeInstaller.nodes_dir: directory name -> clone (origin, head, requirements)
    nlast,      \* the node installer operation that led to this state and its outcome
    clones,     \* history: directory name -> successful clones since it was last removed
    using_network_volume,   \* ModelManager.using_network_volume
    cache_dir,  \* ModelManager.cache_dir: file name -> content
    outputs, \* output directories of downloads: path -> content
    mlast,      \* the model manager operation that led to this state and its outcome
    build_dir,  \* output directory of the assembler: path -> content
    blast       \* the build operation that led to this state and its outcome

loadervars == <<loader, files, _cache, last, resolved, edits>>

mergevars == <<mbase, moverride, mresult>>

nodevars == <<nodes_dir, nlast, clones>>

modelvars == <<using_network_volume, cache_dir, outputs, mlast>>

buildvars == <<build_dir, blast>>

vars == <<loadervars, mergevars, nodevars, modelvars, buildvars>>

----------------------------------------------------------------------------
(* Bounds *)

\* Number of changes (writes, removals) to the config directory in one run.
MaxEdits == 1

\* Stand-in for the interpreter's recursion limit (sys.getrecursionlimit());
\* larger than the longest chain of distinct names.
RecursionLimit == 4

----------------------------------------------------------------------------
(* Values *)

Str(s)  == [kind |-> "str",  val |-> s]
List(l) == [kind |-> "list", val |-> l]
Dict(d) == [kind |-> "dict", val |-> d]

\* A one-token string.
S(t) == Str(<<t>>)

EmptyDict == <<>>

----------------------------------------------------------------------------
(* config_loader_simple.py *)

_merge_lists(base, override) == base \o override

\* Variant: on a key both sides have, anything but two mappings or two
\* sequences keeps the base's value.
RECURSIVE _merge_dicts_base_wins(_, _)
_merge_dicts_base_wins(base, override) ==
    [key \in DOMAIN base \cup DOMAIN override |->
        IF key \in DOMAIN override
        THEN IF key \in DOMAIN base
             THEN IF base[key].kind = "dict" /\ override[key].kind = "dict"
                  THEN Dict(_merge_dicts_base_wins(base[key].val, override[key].val))
                  ELSE IF base[key].kind = "list" /\ override[key].kind = "list"
                  THEN List(_merge_lists(base[key].val, override[key].val))
                  ELSE base[key]
             ELSE override[key]
        ELSE base[key]]

RECURSIVE _merge_dicts(_, _)
_merge_dicts(base, override) ==
    [key \in DOMAIN base \cup DOMAIN override |->
        IF key \in DOMAIN override
        THEN IF key \in DOMAIN base
             THEN IF base[key].kind = "dict" /\ override[key].kind = "dict"
                  THEN Dict(_merge_dicts(base[key].val, override[key].val))
                  ELSE IF base[key].kind = "list" /\ override[key].kind = "list"
                  THEN List(_merge_lists(base[key].val, override[key].val))
                  ELSE override[key]
             ELSE override[key]
        ELSE base[key]]

\* Variant: _merge_dicts works on the base itself (result = base), so the
\* object passed as base ends up holding the merged document.
base_after_merge_in_place(base, override) == _merge_dicts(base, override)

\* What a call of _merge_dicts leaves in the object passed as base: the
\* call assigns only into base.copy(), recursion copies each nested mapping
\* before assigning into it, and base + override builds a new list.
base_after_merge(base, override) == base

\* config_dir / f'config-{config_name}.yaml'
config_path(config_name) == <<"config-">> \o config_name \o <<".yaml">>

\* config_path.exists()
path_exists(fs, path) == path \in DOMAIN fs

\* yaml.safe_load(open(config_path)): the files hold parsed documents, every
\* read yields a fresh copy.
yaml_safe_load(fs, path) == fs[path]

\* Variant: a missing source reads as an empty document.
read_source_missing_is_empty(fs, config_name) ==
    IF path_exists(fs, config_path(config_name))
    THEN [found |-> TRUE, config |-> yaml_safe_load(fs, config_path(config_name))]
    ELSE [found |-> TRUE, config |-> EmptyDict]

\* Variant: every document read gains a default empty `requirements` list.
read_source_with_defaults(fs, config_name) ==
    IF path_exists(fs, config_path(config_name))
    THEN [found |-> TRUE,
          config |-> [key \in DOMAIN yaml_safe_load(fs, config_path(config_name))
                               \cup {"requirements"} |->
                         IF key \in DOMAIN yaml_safe_load(fs, config_path(config_name))
                         THEN yaml_safe_load(fs, config_path(config_name))[key]
                         ELSE List(<<>>)]]
    ELSE [found |-> FALSE, config |-> EmptyDict]

\* if not config_path.exists(): raise FileNotFoundError
\* with open(config_path) as f: config = yaml.safe_load(f)
read_source(fs, config_name) ==
    IF path_exists(fs, config_path(config_name))
    THEN [found |-> TRUE, config |-> yaml_safe_load(fs, config_path(config_name))]
    ELSE [found |-> FALSE, config |-> EmptyDict]

startswith_config(s) == Len(s) > 0 /\ Head(s) = "config-"
endswith_yaml(s)     == Len(s) > 0 /\ s[Len(s)] = ".yaml"

\* base_name[7:] if it starts with 'config-', then base_name[:-5] if it ends
\* with '.yaml'
normalize_base_name(ref) ==
    LET s1 == IF startswith_config(ref) THEN Tail(ref) ELSE ref
    IN  IF endswith_yaml(s1) THEN SubSeq(s1, 1, Len(s1) - 1) ELSE s1

\* Variant: the field is left in place.
del_extends_kept(config) == config

\* del config['extends']
del_extends(config) == [key \in DOMAIN config \ {"extends"} |-> config[key]]

\* self._cache[config_name] = config
cache_store(cache, config_name, config) ==
    [n \in DOMAIN cache \cup {config_name} |->
        IF n = config_name THEN config ELSE cache[n]]

\* Variant: the cache is never consulted.
cache_hit_never(cache, config_name) == FALSE

\* if config_name in self._cache
cache_hit(cache, config_name) == config_name \in DOMAIN cache

\* Outcome of one load_config call: err is "none" or the exception raised;
\* doc the returned document; cache the cache after the call; reads the
\* paths the call touched; frames the number of load_config frames entered;
\* rets the document returned by every load_config frame that returned.
Raised(e, cache, reads, frames) ==
    [err |-> e, doc |-> EmptyDict, cache |-> cache, reads |-> reads,
     frames |-> frames, rets |-> <<>>]

Returned(doc, cache, reads, frames, rets) ==
    [err |-> "none", doc |-> doc, cache |-> cache, reads |-> reads,
     frames |-> frames, rets |-> rets]

\* Variant: the document is put into the cache as soon as it is read, before
\* its ancestor is resolved.
RECURSIVE load_config_simple_eager(_, _, _, _)
load_config_simple_eager(fs, cache, config_name, depth) ==
    IF depth > RecursionLimit
    THEN Raised("RecursionError", cache, {}, 0)
    ELSE IF cache_hit(cache, config_name)
    THEN Returned(cache[config_name], cache, {}, 1,
                  config_name :> cache[config_name])
    ELSE IF ~ read_source(fs, config_name).found
    THEN Raised("FileNotFoundError", cache, {config_path(config_name)}, 1)
    ELSE LET config == read_source(fs, config_name).config
         IN  IF "extends" \in DOMAIN config
             THEN LET base_name == normalize_base_name(config["extends"].val)
                      b == load_config_simple_eager(
                               fs, cache_store(cache, config_name, del_extends(config)),
                               base_name, depth + 1)
                  IN  IF b.err # "none"
                      THEN Raised(b.err, b.cache,
                                  b.reads \cup {config_path(config_name)},
                                  b.frames + 1)
                      ELSE LET merged == _merge_dicts(b.doc, del_extends(config))
                           IN  Returned(merged,
                                        cache_store(b.cache, config_name, merged),
                                        b.reads \cup {config_path(config_name)},
                                        b.frames + 1,
                                        (config_name :> merged) @@ b.rets)
             ELSE Returned(config, cache_store(cache, config_name, config),
                           {config_path(config_name)}, 1, config_name :> config)

RECURSIVE load_config_simple(_, _, _, _)
load_config_simple(fs, cache, config_name, depth) ==
    IF depth > RecursionLimit
    THEN Raised("RecursionError", cache, {}, 0)
    ELSE IF cache_hit(cache, config_name)
    THEN Returned(cache[config_name], cache, {}, 1,
                  config_name :> cache[config_name])
    ELSE IF ~ read_source(fs, config_name).found
    THEN Raised("FileNotFoundError", cache, {config_path(config_name)}, 1)
    ELSE LET config == read_source(fs, config_name).config
         IN  IF "extends" \in DOMAIN config
             THEN LET base_name == normalize_base_name(config["extends"].val)
                      b == load_config_simple(fs, cache, base_name, depth + 1)
                  IN  IF b.err # "none"
                      THEN Raised(b.err, b.cache,
                                  b.reads \cup {config_path(config_name)},
                                  b.frames + 1)
                      ELSE LET override == del_extends(config)
                               merged == _merge_dicts(b.doc, override)
                               \* base_config is the object cached under
                               \* base_name
                               aliased == cache_store(b.cache, base_name,
                                              base_after_merge(b.doc, override))
                           IN  Returned(merged,
                                        cache_store(aliased, config_name, merged),
                                        b.reads \cup {config_path(config_name)},
                                        b.frames + 1,
                                        (config_name :> merged) @@ b.rets)
             ELSE Returned(config, cache_store(cache, config_name, config),
                           {config_path(config_name)}, 1, config_name :> config)

----------------------------------------------------------------------------
(* config_loader_hiyapyco.py *)

\* Marks a merge that raised HiYaPyCoImplementationException.
HiyaRaise == [kind |-> "raise", val |-> <<>>]

\* The deep merge hiyapyco.load applies with method=METHOD_MERGE and
\* mergelists=False: a string or a list in the later file replaces what the
\* earlier file has (with mergelists off, lists are treated like scalars);
\* two mappings merge key by key; a mapping over a list raises; a mapping
\* over a string leaves the string.
RECURSIVE hiyapyco_deepmerge(_, _)
hiyapyco_deepmerge(a, b) ==
    IF b.kind = "str" \/ b.kind = "list"
    THEN b
    ELSE IF a.kind = "list"
    THEN HiyaRaise
    ELSE IF a.kind = "dict"
    THEN LET m == [k \in DOMAIN a.val \cup DOMAIN b.val |->
                     IF k \in DOMAIN b.val
                     THEN IF k \in DOMAIN a.val
                          THEN hiyapyco_deepmerge(a.val[k], b.val[k])
                          ELSE b.val[k]
                     ELSE a.val[k]]
         IN  IF \E k \in DOMAIN m : m[k].kind = "raise"
             THEN HiyaRaise
             ELSE Dict(m)
    ELSE a

\* hiyapyco.load(config_files, method=METHOD_MERGE, mergelists=False,
\* interpolate=False, failonmissingfiles=True): the files are loaded in order
\* and each is merged over the result so far.
RECURSIVE hiyapyco_load(_, _)
hiyapyco_load(fs, config_files) ==
    IF Len(config_files) = 1
    THEN Dict(yaml_safe_load(fs, config_files[1]))
    ELSE LET data == hiyapyco_load(fs, SubSeq(config_files, 1, Len(config_files) - 1))
         IN  IF data.kind = "raise"
             THEN HiyaRaise
             ELSE hiyapyco_deepmerge(data,
                      Dict(yaml_safe_load(fs, config_files[Len(config_files)])))

load_config_hiyapyco(fs, cache, config_name) ==
    IF cache_hit(cache, config_name)
    THEN Returned(cache[config_name], cache, {}, 1,
                  config_name :> cache[config_name])
    ELSE IF ~ read_source(fs, config_name).found
    THEN Raised("FileNotFoundError", cache, {config_path(config_name)}, 1)
    ELSE LET temp_config == read_source(fs, config_name).config
             has_extends == "extends" \in DOMAIN temp_config
             base_path ==
                 config_path(normalize_base_name(temp_config["extends"].val))
             config_files ==
                 (IF has_extends /\ path_exists(fs, base_path)
                  THEN <<base_path>> ELSE <<>>)
                 \o <<config_path(config_name)>>
             merged ==
                 IF Len(config_files) > 1
                 THEN hiyapyco_load(fs, config_files)
                 ELSE Dict(yaml_safe_load(fs, config_path(config_name)))
             reads == {config_path(config_name)}
                      \cup (IF has_extends THEN {base_path} ELSE {})
         IN  IF merged.kind = "raise"
             THEN Raised("HiYaPyCoImplementationException", cache, reads, 1)
             ELSE LET result == IF "extends" \in DOMAIN merged.val
                                THEN del_extends(merged.val)
                                ELSE merged.val
                  IN  Returned(result, cache_store(cache, config_name, result),
                               reads, 1, config_name :> result)

----------------------------------------------------------------------------
(* builder.py *)

\* try: from config_loader_hiyapyco import ConfigLoader
\* except ImportError: from config_loader_simple import ConfigLoader
\* self.config_loader.load_config(config_name)
load_config(ld, fs, cache, config_name) ==
    IF ld = "simple"
    THEN load_config_simple(fs, cache, config_name, 1)
    ELSE load_config_hiyapyco(fs, cache, config_name)

\* key in x, for x a dict (key test), a list (element test) or a string
\* (substring test; "url" and "name" occur only as whole tokens)
py_in(key, x) ==
    IF x.kind = "dict" THEN key \in DOMAIN x.val
    ELSE IF x.kind = "list" THEN \E i \in 1..Len(x.val) : x.val[i] = S(key)
    ELSE \E i \in 1..Len(x.val) : x.val[i] = key

\* for e in x: the items of a list; iterating a dict yields its keys and
\* iterating a string its characters, all of them strings
py_iter(x) ==
    IF x.kind = "list" THEN {x.val[i] : i \in 1..Len(x.val)}
    ELSE IF x.kind = "dict" THEN {S(k) : k \in DOMAIN x.val}
    ELSE {S(x.val[i]) : i \in 1..Len(x.val)}

\* The checks of validate_config on a resolved document, in the order the
\* code makes them; the result is the first error logged, or "valid".
\* models.items() on a value that is not a mapping raises AttributeError.
validate_document(config) ==
    IF "name" \notin DOMAIN config THEN "Missing required field: name"
    ELSE IF "version" \notin DOMAIN config THEN "Missing required field: version"
    ELSE IF "nodes" \in DOMAIN config
            /\ \E node \in py_iter(config["nodes"]) :
                   node.kind = "dict" /\ ~ py_in("url", node)
    THEN "Node missing URL"
    ELSE IF "models" \in DOMAIN config /\ config["models"].kind # "dict"
    THEN "AttributeError"
    ELSE IF "models" \in DOMAIN config
            /\ \E model_type \in DOMAIN config["models"].val :
                 \E model \in py_iter(config["models"].val[model_type]) :
                     ~ py_in("url", model) \/ ~ py_in("name", model)
    THEN "Model missing required fields"
    ELSE "valid"

\* Variant: validation fills in the optional fields it reads
\* (config.setdefault) instead of reading them with a default.
doc_after_validation_setdefault(config) ==
    [key \in DOMAIN config \cup {"nodes", "models"} |->
        IF key \in DOMAIN config THEN config[key]
        ELSE IF key = "nodes" THEN List(<<>>) ELSE Dict(EmptyDict)]

\* What validate_config leaves in the document it inspects: it tests
\* membership, reads with config.get(key, default) and iterates.
doc_after_validation(config) == config

\* Variant: no handler, the exception reaches the caller.
except_reraise(r) == r

\* except Exception as e: logger.error(...); return False
except_return_false(r) ==
    IF r.exc = "none" THEN r
    ELSE [r EXCEPT !.ret = FALSE, !.err = r.exc, !.exc = "none"]

\* The try block of validate_config: ret is the boolean returned, err the
\* error logged ("none" when valid), exc the exception raised inside the
\* block ("none" when it returned), cache the loader's cache afterwards.
\* The document inspected is the object the loader cached.
validate_config_try(ld, fs, cache, config_name) ==
    IF ~ path_exists(fs, config_path(config_name))
    THEN [ret |-> FALSE, err |-> "Config not found", exc |-> "none",
          doc |-> EmptyDict,
          cache |-> cache, reads |-> {config_path(config_name)},
          frames |-> 0, rets |-> <<>>]
    ELSE LET r == load_config(ld, fs, cache, config_name)
         IN  IF r.err # "none"
             THEN [ret |-> FALSE, err |-> "none", exc |-> r.err,
                   doc |-> EmptyDict,
                   cache |-> r.cache, reads |-> r.reads,
                   frames |-> r.frames, rets |-> r.rets]
             ELSE LET v == validate_document(r.doc)
                      inspected == doc_after_validation(r.doc)
                  IN  [ret |-> v = "valid",
                       err |-> IF v \in {"valid", "AttributeError"}
                               THEN "none" ELSE v,
                       exc |-> IF v = "AttributeError" THEN v ELSE "none",
                       doc |-> inspected,
                       cache |-> cache_store(r.cache, config_name, inspected),
                       reads |-> r.reads,
                       frames |-> r.frames, rets |-> r.rets]

\* ComfyUIBuilder.validate_config
validate_config(ld, fs, cache, config_name) ==
    except_return_false(validate_config_try(ld, fs, cache, config_name))

----------------------------------------------------------------------------
(* node_installer.py *)

None == [kind |-> "none", val |-> <<>>]

\* `if x:` for x None or a string
truthy(x) == x.kind # "none" /\ x.val # <<>>

\* url.rstrip('/')
RECURSIVE rstrip_slash(_)
rstrip_slash(url) ==
    IF url # <<>> /\ url[Len(url)] = "/"
    THEN rstrip_slash(SubSeq(url, 1, Len(url) - 1))
    ELSE url

\* s.split('/')[-1]
RECURSIVE last_segment(_)
last_segment(s) ==
    IF s = <<>> \/ s[Len(s)] = "/"
    THEN <<>>
    ELSE Append(last_segment(SubSeq(s, 1, Len(s) - 1)), s[Len(s)])

endswith_git(s) == s # <<>> /\ s[Len(s)] = ".git"

\* The directory name install_node derives from a URL.
repo_name(url) ==
    LET name == last_segment(rstrip_slash(url))
    IN  IF endswith_git(name) THEN SubSeq(name, 1, Len(name) - 1) ELSE name

\* The URL handed to git clone.
clone_url(url) ==
    IF Len(url) >= 2 /\ url[1] = "https://github.com" /\ url[2] = "/"
       /\ ~ endswith_git(url)
    THEN url \o <<".git">>
    ELSE url

\* Whether the repository behind a clone URL ships a requirements.txt.
has_requirements(url) == "repoB" \notin {url[i] : i \in 1..Len(url)}

\* One subprocess.run: the command, the directory it works on, its
\* argument, and whether it exited with 0.
Cmd(c, dir, arg, ok) == [cmd |-> c, dir |-> dir, arg |-> arg, ok |-> ok]

set_head(dirs, name, ref) == [dirs EXCEPT ![name].head = ref]

\* Variant: the target directory is never found.
node_path_exists_never(dirs, name) == FALSE

\* node_path.exists()
node_path_exists(dirs, name) == name \in DOMAIN dirs

\* NodeInstaller.update_node; out gives the exit status of each git command.
\* The result of git pull is not examined.
update_node(dirs, name, branch, commit, out) ==
    LET fetch == Cmd("fetch", name, <<>>, out.fetch)
    IN  IF ~ out.fetch
        THEN [ret |-> TRUE, dirs |-> dirs, log |-> <<fetch>>]
        ELSE IF truthy(branch)
        THEN IF out.checkout
             THEN [ret |-> TRUE, dirs |-> set_head(dirs, name, branch.val),
                   log |-> <<fetch, Cmd("checkout", name, branch.val, TRUE),
                             Cmd("pull", name, branch.val, TRUE)>>]
             ELSE [ret |-> TRUE, dirs |-> dirs,
                   log |-> <<fetch, Cmd("checkout", name, branch.val, FALSE)>>]
        ELSE IF truthy(commit)
        THEN [ret |-> TRUE,
              dirs |-> IF out.checkout THEN set_head(dirs, name, commit.val)
                       ELSE dirs,
              log |-> <<fetch, Cmd("checkout", name, commit.val, out.checkout)>>]
        ELSE [ret |-> TRUE, dirs |-> dirs, log |-> <<fetch>>]

\* NodeInstaller.install_node
install_node(dirs, url, branch, commit, out) ==
    LET name == repo_name(url)
        clone == Cmd("clone", name, clone_url(url), out.clone)
        cloned == [n \in DOMAIN dirs \cup {name} |->
                      IF n = name
                      THEN [origin |-> clone_url(url),
                            head |-> IF truthy(branch) THEN branch.val
                                     ELSE <<"HEAD">>,
                            requirements |-> has_requirements(clone_url(url))]
                      ELSE dirs[n]]
    IN  IF node_path_exists(dirs, name)
        THEN update_node(dirs, name, branch, commit, out)
        ELSE IF ~ out.clone
        THEN [ret |-> FALSE, dirs |-> dirs, log |-> <<clone>>]
        ELSE IF truthy(commit)
        THEN IF out.checkout
             THEN [ret |-> TRUE, dirs |-> set_head(cloned, name, commit.val),
                   log |-> <<clone, Cmd("checkout", name, commit.val, TRUE)>>]
             ELSE [ret |-> FALSE, dirs |-> cloned,
                   log |-> <<clone, Cmd("checkout", name, commit.val, FALSE)>>]
        ELSE [ret |-> TRUE, dirs |-> cloned, log |-> <<clone>>]

\* One install_node call of a loop over node entries: the arguments passed,
\* and the branch and commit the entry asks for.
NodeCall(url, branch, commit, want_branch, want_commit) ==
    [url |-> url, branch |-> branch, commit |-> commit,
     want_branch |-> want_branch, want_commit |-> want_commit]

\* node.get(key)
node_get(node, key) == IF key \in DOMAIN node.val THEN node.val[key] ELSE None

\* The install_node calls of a loop, in order: for each the entry, what
\* install_node returned, whether the directory was there before, and the
\* ref the directory is at afterwards (empty when there is no directory).
RECURSIVE run_calls(_, _, _)
run_calls(dirs, calls, outs) ==
    IF calls = <<>>
    THEN [dirs |-> dirs, entries |-> <<>>, log |-> <<>>]
    ELSE LET c == Head(calls)
             r == install_node(dirs, c.url, c.branch, c.commit, Head(outs))
             rest == run_calls(r.dirs, Tail(calls), Tail(outs))
             name == repo_name(c.url)
         IN  [dirs |-> rest.dirs,
              entries |-> <<[url |-> c.url, branch |-> c.want_branch,
                             commit |-> c.want_commit, ok |-> r.ret,
                             existed |-> name \in DOMAIN dirs,
                             head |-> IF name \in DOMAIN r.dirs
                                      THEN r.dirs[name].head ELSE <<>>]>>
                          \o rest.entries,
              log |-> r.log \o rest.log]

\* Order in which nodes_dir.iterdir() lists the directories.
DirOrder == <<<<"repoA">>, <<"repoB">>>>

\* Variant: no requirements are installed.
install_all_requirements_skipped(dirs) == <<>>

\* NodeInstaller.install_all_requirements: the pip commands run. Their
\* results are not examined by the callers.
install_all_requirements(dirs) ==
    LET found == SelectSeq(DirOrder,
                     LAMBDA d : d \in DOMAIN dirs /\ dirs[d].requirements)
    IN  [i \in 1..Len(found) |-> Cmd("pip", found[i], <<"requirements.txt">>, TRUE)]

\* The calls the loop of install_nodes_from_package makes: a mapping entry
\* without url is passed over.
RECURSIVE package_calls(_)
package_calls(nodes) ==
    IF nodes = <<>> THEN <<>>
    ELSE LET node == Head(nodes)
         IN  (IF node.kind = "str"
              THEN <<NodeCall(node.val, None, None, None, None)>>
              ELSE IF node.kind = "dict" /\ truthy(node_get(node, "url"))
              THEN <<NodeCall(node.val["url"].val,
                              node_get(node, "branch"), node_get(node, "commit"),
                              node_get(node, "branch"), node_get(node, "commit"))>>
              ELSE <<>>)
             \o package_calls(Tail(nodes))

\* NodeInstaller.install_nodes_from_package
install_nodes_from_package(dirs, package_config, outs) ==
    LET nodes == IF "custom_nodes" \in DOMAIN package_config
                 THEN package_config["custom_nodes"].val ELSE <<>>
        r == run_calls(dirs, package_calls(nodes), outs)
        success == \A i \in 1..Len(r.entries) : r.entries[i].ok
    IN  IF nodes = <<>>
        THEN [ret |-> TRUE, dirs |-> dirs, entries |-> <<>>, log |-> <<>>]
        ELSE [ret |-> success, dirs |-> r.dirs, entries |-> r.entries,
              log |-> IF success
                      THEN r.log \o install_all_requirements(r.dirs)
                      ELSE r.log]

\* The calls the loop of ComfyUIBuilder.install_nodes makes: a mapping entry
\* passes its url and branch only; node['url'] on a mapping without url
\* raises KeyError and ends the loop.
RECURSIVE builder_calls(_)
builder_calls(nodes) ==
    IF nodes = <<>> THEN [calls |-> <<>>, exc |-> "none"]
    ELSE LET node == Head(nodes)
             rest == builder_calls(Tail(nodes))
         IN  IF node.kind = "dict" /\ "url" \notin DOMAIN node.val
             THEN [calls |-> <<>>, exc |-> "KeyError"]
             ELSE [calls |->
                      <<IF node.kind = "dict"
                        THEN NodeCall(node.val["url"].val,
                                      node_get(node, "branch"), None,
                                      node_get(node, "branch"),
                                      node_get(node, "commit"))
                        ELSE NodeCall(node.val, None, None, None, None)>>
                      \o rest.calls,
                   exc |-> rest.exc]

\* The try block of ComfyUIBuilder.install_nodes
install_nodes_try(ld, fs, cache, config_name, dirs, outs) ==
    IF ~ path_exists(fs, config_path(config_name))
    THEN [ret |-> FALSE, err |-> "Config not found", exc |-> "none",
          cache |-> cache, dirs |-> dirs, entries |-> <<>>, log |-> <<>>]
    ELSE LET r == load_config(ld, fs, cache, config_name)
             nodes == IF "nodes" \in DOMAIN r.doc
                      THEN r.doc["nodes"].val ELSE <<>>
             b == builder_calls(nodes)
             rr == run_calls(dirs, b.calls, outs)
         IN  IF r.err # "none"
             THEN [ret |-> FALSE, err |-> "none", exc |-> r.err,
                   cache |-> r.cache, dirs |-> dirs, entries |-> <<>>,
                   log |-> <<>>]
             ELSE IF nodes = <<>>
             THEN [ret |-> TRUE, err |-> "none", exc |-> "none",
                   cache |-> r.cache, dirs |-> dirs, entries |-> <<>>,
                   log |-> <<>>]
             ELSE [ret |-> TRUE, err |-> "none", exc |-> b.exc,
                   cache |-> r.cache, dirs |-> rr.dirs,
                   entries |-> rr.entries, log |-> rr.log]

\* ComfyUIBuilder.install_nodes
install_nodes(ld, fs, cache, config_name, dirs, outs) ==
    except_return_false(install_nodes_try(ld, fs, cache, config_name, dirs, outs))

----------------------------------------------------------------------------
(* model_manager.py *)

\* A URL is its scheme and host and the tokens of its path.
Url(host, path) == [host |-> host, path |-> path]

\* s.split('.')[-1]
RECURSIVE after_last_dot(_)
after_last_dot(s) ==
    IF s = <<>> \/ s[Len(s)] = "."
    THEN <<>>
    ELSE Append(after_last_dot(SubSeq(s, 1, Len(s) - 1)), s[Len(s)])

\* ModelManager._get_extension_from_url
_get_extension_from_url(url) ==
    IF \E i \in 1..Len(url.path) : url.path[i] = "."
    THEN <<".">> \o after_last_dot(url.path)
    ELSE <<".safetensors">>

\* hashlib.sha256(url.encode()).hexdigest()[:16]: one digest per URL, taken
\* to differ between the URLs in use.
url_hash(url) == <<"sha256", url.host>> \o url.path

\* A file: the URL its bytes came from and how much of the body it holds
\* ("full", "part" or "zero" bytes).
File(url, size) == [src |-> url, size |-> size]

\* Variant: the destination is never found.
output_path_exists_never(out, output_path) == FALSE

\* output_path.exists()
output_path_exists(out, output_path) == output_path \in DOMAIN out

\* cache_path.exists() and cache_path.stat().st_size > 0
cache_entry_usable(cache, cache_path) ==
    cache_path \in DOMAIN cache /\ cache[cache_path].size # "zero"

write_file(dir, path, file) ==
    [p \in DOMAIN dir \cup {path} |-> IF p = path THEN file ELSE dir[p]]

\* Variant: every transfer is written to the cache first.
download_to_cache_always(nv) == TRUE

\* download_path = cache_path if self.using_network_volume else output_path
download_to_cache(nv) == nv

\* ModelManager._download_direct. o gives what the environment does: copy_hit
\* whether copying a cache entry to the destination succeeds, net how the
\* transfer goes ("error": the request fails; "cut_empty", "cut": the body
\* breaks off after no or some bytes; "complete"), copy_final whether copying
\* the downloaded cache entry to the destination succeeds. requests lists
\* the network requests issued; served says where the file came from.
_download_direct(nv, cache, out, url, name, output_dir, filename, o) ==
    LET fname == IF filename = None THEN name \o _get_extension_from_url(url)
                 ELSE filename.val
        output_path == <<output_dir, fname>>
        cache_path == <<url_hash(url), fname>>
        written == File(url, CASE o.net = "complete" -> "full"
                               [] o.net = "cut" -> "part"
                               [] OTHER -> "zero")
        res(ret, c, d, reqs, served) ==
            [ret |-> ret, cache |-> c, out |-> d, requests |-> reqs,
             served |-> served, output_path |-> output_path,
             cache_path |-> cache_path]
    IN  IF output_path_exists(out, output_path)
        THEN res(TRUE, cache, out, <<>>, "destination")
        ELSE IF cache_entry_usable(cache, cache_path) /\ o.copy_hit
        THEN res(TRUE, cache, write_file(out, output_path, cache[cache_path]),
                 <<>>, "cache")
        ELSE IF o.net = "error"
        THEN res(FALSE, cache, out, <<url>>, "none")
        ELSE IF download_to_cache(nv)
        THEN IF o.net = "complete" /\ o.copy_final
             THEN res(TRUE, write_file(cache, cache_path, written),
                      write_file(out, output_path, written), <<url>>, "network")
             ELSE \* the handler unlinks output_path only
                  res(FALSE, write_file(cache, cache_path, written), out,
                      <<url>>, "none")
        ELSE IF o.net = "complete"
             THEN res(TRUE, cache, write_file(out, output_path, written),
                      <<url>>, "network")
             ELSE \* the partial output_path is unlinked by the handler
                  res(FALSE, cache, out, <<url>>, "none")

----------------------------------------------------------------------------
(* variant_builder.py *)

Bool(b) == [kind |-> "bool", val |-> b]

\* Truth value of a document value: None, False and the empty string,
\* sequence and mapping are false.
py_bool(x) ==
    IF x.kind = "bool" THEN x.val
    ELSE IF x.kind = "none" THEN FALSE
    ELSE IF x.kind = "dict" THEN DOMAIN x.val # {}
    ELSE x.val # <<>>

\* config.get(key, default)
config_get(config, key, default) ==
    IF key \in DOMAIN config THEN config[key] ELSE default

\* A step was entered and wrote nothing.
entered(s, step) == [s EXCEPT !.steps = Append(@, step)]

\* with open(path, 'w') as f: ... inside a step; fail names the step whose
\* write raises OSError ("none" when every write goes through).
write_step(s, step, path, content, fail) ==
    IF fail = step
    THEN [s EXCEPT !.steps = Append(@, step), !.exc = "OSError",
                   !.failed = step]
    ELSE [s EXCEPT !.steps = Append(@, step),
                   !.files = write_file(@, path, content)]

\* Variant: the nodes section is never written.
_process_nodes_skipped(nodes, s, fail) == entered(s, "nodes")

\* ConfigBuilder._process_nodes
_process_nodes(nodes, s, fail) ==
    IF ~ py_bool(nodes) THEN entered(s, "nodes")
    ELSE write_step(s, "nodes", <<"custom_nodes.json">>, nodes, fail)

\* ConfigBuilder._process_models
_process_models(models, s, fail) ==
    IF ~ py_bool(models) THEN entered(s, "models")
    ELSE write_step(s, "models", <<"models.json">>, models, fail)

\* ConfigBuilder._process_requirements: the lines written are set(requirements)
_process_requirements(requirements, s, fail) ==
    IF ~ py_bool(requirements) THEN entered(s, "requirements")
    ELSE write_step(s, "requirements", <<"requirements.txt">>,
                    [kind |-> "lines", val |-> py_iter(requirements)], fail)

\* ConfigBuilder._generate_config_file
_generate_config_file(config, config_name, s, fail) ==
    write_step(s, "config_file", <<"config.yaml">>,
        Dict([name |-> Str(config_name),
              version |-> config_get(config, "version", S("1.0.0")),
              base_image |-> config_get(config, "base_image",
                                        S("effekt/runpod-comfyui:base")),
              env_vars |-> config_get(config, "env_vars", Dict(EmptyDict)),
              nodes |-> config_get(config, "nodes", List(<<>>)),
              models |-> config_get(config, "models", Dict(EmptyDict)),
              requirements |-> config_get(config, "requirements", List(<<>>)),
              workflows |-> config_get(config, "workflows", List(<<>>))]),
        fail)

\* Workflow files present in workflows_dir.
WorkflowsDir == {<<"w1", ".json">>}

\* ConfigBuilder._copy_workflows: every listed workflow found in
\* workflows_dir is copied, the others are passed over with a warning.
_copy_workflows(config, s, fail) ==
    LET workflows == config_get(config, "workflows", List(<<>>))
        found == {w \in py_iter(workflows) : w.val \in WorkflowsDir}
    IN  IF ~ py_bool(workflows) THEN entered(s, "workflows")
        ELSE IF fail = "workflows" /\ found # {}
        THEN [s EXCEPT !.steps = Append(@, "workflows"), !.exc = "OSError",
                       !.failed = "workflows"]
        ELSE [s EXCEPT !.steps = Append(@, "workflows"),
                       !.files = LET copied == {<<"workflows">> \o w.val :
                                                    w \in found}
                                 IN  [p \in DOMAIN @ \cup copied |->
                                        IF p \in copied THEN S("workflow")
                                        ELSE @[p]]]

\* ConfigBuilder._generate_dockerfile
_generate_dockerfile(config, config_name, s, fail) ==
    write_step(s, "dockerfile", <<"Dockerfile">>,
        Dict([base_image |-> config_get(config, "base_image",
                                        S("effekt/runpod-comfyui:base")),
              config_name |-> Str(config_name),
              env_vars |-> config_get(config, "env_vars", Dict(EmptyDict))]),
        fail)

\* ConfigBuilder._generate_startup_script
_generate_startup_script(config, config_name, s, fail) ==
    write_step(s, "startup_script", <<"startup.sh">>, Str(config_name), fail)

\* The names bound inside ConfigBuilder.build: its parameters.
build_locals == {"self", "config", "config_name", "output_dir"}

\* Evaluating a name that is not bound raises NameError.
name_bound(n) == n \in build_locals

\* The value of an expression, computed once: the element of {e}.
Only(values) == CHOOSE x \in values : TRUE

\* if not step(...): return False -- the step is run unless an earlier one
\* raised; every step returns True when it does not raise.
then_step(s, next) == IF s.exc # "none" THEN s ELSE next

\* The try block of ConfigBuilder.build: the steps in the order the code
\* runs them.  files is the output directory, steps the steps entered,
\* exc the exception raised, failed the step whose write raised.
\* The Dockerfile call names variant_name as its second argument.
build_try(config, config_name, dir, fail) ==
    LET nodes_step(s) ==
            _process_nodes(config_get(config, "nodes", List(<<>>)), s, fail)
        models_step(s) ==
            _process_models(config_get(config, "models", Dict(EmptyDict)),
                            s, fail)
        requirements_step(s) ==
            _process_requirements(
                config_get(config, "requirements", List(<<>>)), s, fail)
        config_file_step(s) ==
            _generate_config_file(config, config_name, s, fail)
        workflows_step(s) == _copy_workflows(config, s, fail)
        dockerfile_step(s) ==
            IF py_bool(config_get(config, "generate_dockerfile", Bool(FALSE)))
            THEN IF name_bound("variant_name")
                 THEN _generate_dockerfile(config, config_name, s, fail)
                 ELSE [s EXCEPT !.exc = "NameError"]
            ELSE s
        startup_script_step(s) ==
            _generate_startup_script(config, config_name, s, fail)
        s0 == [files |-> dir, steps |-> <<>>, exc |-> "none",
               failed |-> "none"]
        s1 == Only({then_step(v, nodes_step(v)) : v \in {s0}})
        s2 == Only({then_step(v, models_step(v)) : v \in {s1}})
        s3 == Only({then_step(v, requirements_step(v)) : v \in {s2}})
        s4 == Only({then_step(v, config_file_step(v)) : v \in {s3}})
        s5 == Only({then_step(v, workflows_step(v)) : v \in {s4}})
        s6 == Only({then_step(v, dockerfile_step(v)) : v \in {s5}})
    IN  Only({then_step(v, startup_script_step(v)) : v \in {s6}})

\* ConfigBuilder.build: any exception is logged and False is returned;
\* the files written before the exception stay in the directory.
build(config, config_name, dir, fail) ==
    Only({except_return_false(
              [ret |-> TRUE, err |-> "none", exc |-> s.exc,
               files |-> s.files, steps |-> s.steps, failed |-> s.failed])
          : s \in {build_try(config, config_name, dir, fail)}})

\* Variant: the assembler is called whatever validation returned.
validation_passed_always(v) == TRUE

\* if not self.validate_config(config_name): return False
validation_passed(v) == v.ret

\* The try block of build_config once validation has passed: r is what
\* load_config returned.
build_loaded(r, config_name, dir, fail) ==
    IF r.err # "none"
    THEN [ret |-> FALSE, err |-> r.err, exc |-> "none", files |-> dir,
          steps |-> <<>>, failed |-> "none", cache |-> r.cache,
          config |-> EmptyDict]
    ELSE Only({[ret |-> b.ret, err |-> b.err, exc |-> "none",
                files |-> b.files, steps |-> b.steps, failed |-> b.failed,
                cache |-> r.cache, config |-> r.doc]
               : b \in {build(r.doc, config_name, dir, fail)}})

\* ComfyUIBuilder.build_config: validate, load, assemble.
build_config(ld, fs, cache, config_name, dir, fail) ==
    Only({IF ~ validation_passed(v)
          THEN [ret |-> FALSE, err |-> v.err, exc |-> "none", files |-> dir,
                steps |-> <<>>, failed |-> "none", cache |-> v.cache,
                config |-> EmptyDict]
          ELSE Only({build_loaded(r, config_name, dir, fail)
                     : r \in {load_config(ld, fs, v.cache, config_name)}})
          : v \in {validate_config(ld, fs, cache, config_name)}})

----------------------------------------------------------------------------
(* builder.py: module import and create_config *)

\* The names bound in the builder module when its try statement runs:
\* the imports above it.  logger is assigned after the imports below it.
module_globals_at_import ==
    {"argparse", "json", "logging", "os", "sys", "Path", "Dict", "List",
     "Optional", "yaml"}

\* Loading the builder module up to the binding of ConfigLoader:
\* try: from config_loader_hiyapyco import ConfigLoader
\* except ImportError: logger.warning(...); from config_loader_simple import ...
\* loaded tells whether the module went on loading, exc the exception that
\* ended it.
import_builder(hiyapyco_available) ==
    IF hiyapyco_available
    THEN [loaded |-> TRUE, ConfigLoader |-> "hiyapyco", exc |-> "none",
          log |-> <<>>]
    ELSE IF "logger" \in module_globals_at_import
    THEN [loaded |-> TRUE, ConfigLoader |-> "simple", exc |-> "none",
          log |-> <<"HiYaPyCo not available, using simple config loader">>]
    ELSE [loaded |-> FALSE, ConfigLoader |-> "unbound", exc |-> "NameError",
          log |-> <<>>]

\* The literal create_config writes for the list markers.
IncludeBase == S("!include base")

\* config_data of create_config
config_template(name, base_image) ==
    [name |-> Str(name),
     version |-> S("1.0.0"),
     base_image |-> base_image,
     description |-> Str(<<"ComfyUI configuration: ">> \o name),
     extends |-> Str(<<"config-", "base", ".yaml">>),
     nodes |-> List(<<IncludeBase>>),
     requirements |-> List(<<IncludeBase>>),
     workflows |-> List(<<>>),
     models |-> Dict([checkpoints |-> List(<<>>), loras |-> List(<<>>),
                      vae |-> List(<<>>), controlnet |-> List(<<>>),
                      upscale_models |-> List(<<>>)]),
     env_vars |-> Dict([CONFIG_NAME |-> Str(name),
                        COMFYUI_ARGS |-> Str(<<>>)])]

\* save_yaml: yaml.dump writes strings that would read back as something
\* else in quotes ('!include base', ''), so the file reads back as the
\* mappings, sequences and strings of data; the file at path is replaced.
save_yaml(fs, data, path) ==
    [p \in DOMAIN fs \cup {path} |-> IF p = path THEN data ELSE fs[p]]

\* Variant: the existence of the config file is never noticed.
config_exists_never(fs, name) == FALSE

\* config_path.exists() in create_config
config_exists(fs, name) == path_exists(fs, config_path(name))

\* ComfyUIBuilder.create_config
create_config(fs, name, base_image) ==
    IF config_exists(fs, name)
    THEN [ret |-> FALSE, files |-> fs]
    ELSE [ret |-> TRUE,
          files |-> save_yaml(fs, config_template(name, base_image),
                              config_path(name))]

----------------------------------------------------------------------------
(* The config directory and the documents it can hold *)

Names == {<<"a">>, <<"b">>, <<"c">>}

Paths == {config_path(n) : n \in Names}

\* Values an `extends` field takes: a bare name, a decorated file name, a
\* name with the suffix only.
ExtendsRefs == {<<"a">>, <<"config-", "b", ".yaml">>, <<"c", ".yaml">>}

Model(u, n) == Dict([url |-> S(u), name |-> S(n)])

BaseBody ==
    [name    |-> S("base"),
     version |-> S("1.0"),
     nodes   |-> List(<<S("repoA")>>),
     models  |-> Dict([checkpoints |-> List(<<Model("u0", "m0")>>),
                       loras       |-> List(<<Model("u2", "m2")>>)])]

ChildBody ==
    [name   |-> S("child"),
     nodes  |-> List(<<S("repoB")>>),
     models |-> Dict([checkpoints |-> List(<<Model("u1", "m1")>>)])]

Bodies == {BaseBody, ChildBody}

with_extends(body, ref) ==
    [key \in DOMAIN body \cup {"extends"} |->
        IF key = "extends" THEN Str(ref) ELSE body[key]]

\* A root document, a partial document, the partial document extending each
\* of the names, and a complete document that extends one.
SourceDocs ==
    Bodies \cup {with_extends(ChildBody, r) : r \in ExtendsRefs}
           \cup {with_extends(BaseBody, <<"c", ".yaml">>)}

\* Documents a later write puts into the directory.
EditDocs == {BaseBody, with_extends(ChildBody, <<"config-", "b", ".yaml">>)}

FileSystems == UNION {[P -> SourceDocs] : P \in SUBSET Paths}

NoMerge == [done |-> FALSE, val |-> EmptyDict]

\* What a call left behind: err the error raised or logged, exc the
\* exception that reached the caller ("none" when the call returned).
Outcome(op, name, r, ret, exc) ==
    [op |-> op, name |-> name, err |-> r.err, ret |-> ret, exc |-> exc,
     doc |-> r.doc,
     reads |-> r.reads, frames |-> r.frames, rets |-> r.rets]

NoNodeOp ==
    [op |-> "init", ret |-> FALSE, err |-> "none", exc |-> "none",
     entries |-> <<>>, log |-> <<>>]

\* NodeInstaller.__init__: an empty custom_nodes directory.
IdleNodes == nodes_dir = <<>> /\ nlast = NoNodeOp /\ clones = <<>>

NoModelOp ==
    [op |-> "init", url |-> Url("", <<>>), ret |-> FALSE, requests |-> <<>>,
     served |-> "none", output_path |-> <<>>, cache_path |-> <<>>,
     copy_hit |-> FALSE]

\* ModelManager.__init__ without a network volume: empty cache and outputs.
IdleModels ==
    /\ using_network_volume = FALSE
    /\ cache_dir = <<>> /\ outputs = <<>> /\ mlast = NoModelOp

\* No build operation has run yet.
NoBuildOp ==
    [op |-> "none", name |-> <<>>, config |-> EmptyDict, fail |-> "none",
     ret |-> FALSE, err |-> "none", steps |-> <<>>, failed |-> "none"]

\* An output directory nothing was assembled into.
IdleBuild == build_dir = <<>> /\ blast = NoBuildOp

----------------------------------------------------------------------------
(* State machine *)

\* ComfyUIBuilder.__init__: a loader with an empty cache over whatever the
\* config directory holds.
Init ==
    /\ loader \in {"simple", "hiyapyco"}
    /\ files \in FileSystems
    /\ _cache = <<>>
    /\ last = Outcome("init", <<>>, Raised("none", <<>>, {}, 0), FALSE, "none")
    /\ resolved = <<>>
    /\ edits = 0
    /\ mbase = EmptyDict /\ moverride = EmptyDict /\ mresult = NoMerge
    /\ IdleNodes /\ IdleModels /\ IdleBuild

\* config_loader.load_config(config_name)
LoadConfig(config_name) ==
    \E r \in {load_config(loader, files, _cache, config_name)} :
        /\ _cache' = r.cache
        /\ last' = Outcome("load", config_name, r, r.err = "none", r.err)
        /\ resolved' = resolved @@ r.rets
        /\ UNCHANGED <<loader, files, edits, mbase, moverride, mresult,
                   nodevars, modelvars,
                   buildvars>>

\* builder.validate_config(config_name)
ValidateConfig(config_name) ==
    \E r \in {validate_config(loader, files, _cache, config_name)} :
        /\ _cache' = r.cache
        /\ last' = Outcome("validate", config_name, r, r.ret, r.exc)
        /\ resolved' = resolved @@ r.rets
        /\ UNCHANGED <<loader, files, edits, mbase, moverride, mresult,
                   nodevars, modelvars,
                   buildvars>>

\* A source document is written or replaced in the config directory.
WriteSource(config_name, doc) ==
    /\ edits < MaxEdits
    /\ edits' = edits + 1
    /\ files' = [p \in DOMAIN files \cup {config_path(config_name)} |->
                    IF p = config_path(config_name) THEN doc ELSE files[p]]
    /\ last' = Outcome("write", config_name, Raised("none", <<>>, {}, 0), FALSE, "none")
    /\ UNCHANGED <<loader, _cache, resolved, mbase, moverride, mresult,
                   nodevars, modelvars,
                   buildvars>>

\* A source document is removed from the config directory.
RemoveSource(config_name) ==
    /\ edits < MaxEdits
    /\ config_path(config_name) \in DOMAIN files
    /\ edits' = edits + 1
    /\ files' = [p \in DOMAIN files \ {config_path(config_name)} |-> files[p]]
    /\ last' = Outcome("remove", config_name, Raised("none", <<>>, {}, 0), FALSE, "none")
    /\ UNCHANGED <<loader, _cache, resolved, mbase, moverride, mresult,
                   nodevars, modelvars,
                   buildvars>>

Next ==
    \/ \E n \in Names : LoadConfig(n)
    \/ \E n \in Names : ValidateConfig(n)
    \/ \E n \in Names, d \in EditDocs : WriteSource(n, d)
    \/ \E n \in Names : RemoveSource(n)

Spec == Init /\ [][Next]_vars

----------------------------------------------------------------------------
(* _merge_dicts as a function of its two arguments *)

MergeLeaves == {S("x"), S("y"), List(<<S("i")>>), List(<<S("j"), S("i")>>)}

MergeNested ==
    {Dict(EmptyDict)} \cup {Dict("n" :> v) : v \in MergeLeaves}
                      \cup {Dict("p" :> S("x"))}

MergeValues == MergeLeaves \cup MergeNested

MergeArgs == UNION {[K -> MergeValues] : K \in SUBSET {"k", "m"}}

InitMerge ==
    /\ loader = "simple"
    /\ files = <<>>
    /\ _cache = <<>>
    /\ last = Outcome("init", <<>>, Raised("none", <<>>, {}, 0), FALSE, "none")
    /\ resolved = <<>>
    /\ edits = 0
    /\ mbase \in MergeArgs /\ moverride \in MergeArgs /\ mresult = NoMerge
    /\ IdleNodes /\ IdleModels /\ IdleBuild

\* self._merge_dicts(base, override)
MergeDicts ==
    /\ ~ mresult.done
    /\ mresult' = [done |-> TRUE, val |-> _merge_dicts(mbase, moverride)]
    /\ UNCHANGED <<loadervars, mbase, moverride, nodevars, modelvars,
                   buildvars>>

NextMerge == MergeDicts

SpecMerge == InitMerge /\ [][NextMerge]_vars

----------------------------------------------------------------------------
(* Properties *)

NoExtends(doc) == "extends" \notin DOMAIN doc

HasExtends(fs, config_name) ==
    /\ path_exists(fs, config_path(config_name))
    /\ "extends" \in DOMAIN fs[config_path(config_name)]

\* The name a source document's `extends` refers to.
BaseOf(fs, config_name) ==
    normalize_base_name(fs[config_path(config_name)]["extends"].val)

\* C1: every document load_config returns (at any level of the call) and
\* every document in the cache has no top-level `extends` key.
C1_NoExtendsKey ==
    /\ \A n \in DOMAIN _cache : NoExtends(_cache[n])
    /\ \A n \in DOMAIN last.rets : NoExtends(last.rets[n])
    /\ (last.op \in {"load", "validate"} /\ last.err = "none") => NoExtends(last.doc)

\* A document whose source and whose ancestor's source both declare
\* `extends` has been resolved and cached.
C1_Witness ==
    /\ last.op = "load" /\ last.err = "none" /\ last.reads # {}
    /\ last.name \in DOMAIN _cache
    /\ HasExtends(files, last.name)
    /\ HasExtends(files, BaseOf(files, last.name))

\* C2: a load_config call for a name that has no source and is not in the
\* cache raises FileNotFoundError and returns no document.
C2_NotFound ==
    [][(/\ last'.op = "load"
        /\ ~ path_exists(files, config_path(last'.name))
        /\ last'.name \notin DOMAIN _cache)
       => (last'.err = "FileNotFoundError" /\ ~ last'.ret
           /\ last'.doc = EmptyDict /\ _cache' = _cache)]_vars

\* load_config was called for a name without source and failed at once.
C2_Witness ==
    /\ last.op = "load" /\ last.err = "FileNotFoundError" /\ last.frames = 1
    /\ ~ path_exists(files, config_path(last.name))
    /\ last.name \notin DOMAIN _cache

\* What following the extends references from a name runs into: "ok" (a
\* document without `extends`), "missing" (a name without source) or
\* "cycle" (a name already passed).
RECURSIVE ChainStatus(_, _, _)
ChainStatus(fs, config_name, seen) ==
    IF config_name \in seen THEN "cycle"
    ELSE IF ~ path_exists(fs, config_path(config_name)) THEN "missing"
    ELSE IF ~ HasExtends(fs, config_name) THEN "ok"
    ELSE ChainStatus(fs, BaseOf(fs, config_name), seen \cup {config_name})

\* Number of documents on the chain of a name whose status is "ok".
RECURSIVE ChainLength(_, _)
ChainLength(fs, config_name) ==
    IF HasExtends(fs, config_name)
    THEN 1 + ChainLength(fs, BaseOf(fs, config_name))
    ELSE 1

\* The document a loader with an empty cache resolves for a name.
FreshlyResolved(fs, config_name) == load_config(loader, fs, <<>>, config_name)

RECURSIVE SequencesConcatenated(_, _, _)
SequencesConcatenated(ancestor, descendant, result) ==
    \A key \in DOMAIN ancestor \cap DOMAIN descendant :
        /\ (ancestor[key].kind = "list" /\ descendant[key].kind = "list")
           => /\ key \in DOMAIN result
              /\ result[key] = List(ancestor[key].val \o descendant[key].val)
        /\ (ancestor[key].kind = "dict" /\ descendant[key].kind = "dict")
           => /\ key \in DOMAIN result
              /\ result[key].kind = "dict"
              /\ SequencesConcatenated(ancestor[key].val, descendant[key].val,
                                       result[key].val)

\* C3: when a document that extends an ancestor is resolved from its source
\* (no source changed since the loader was built), every key holding a
\* sequence in both the resolved ancestor and the document, at the top level
\* or inside nested mappings, resolves to the ancestor's items followed by
\* the document's items.
C3_SequencesAppend ==
    (/\ last.op = "load" /\ last.err = "none" /\ edits = 0
     /\ HasExtends(files, last.name)
     /\ ChainStatus(files, last.name, {}) = "ok"
     /\ FreshlyResolved(files, BaseOf(files, last.name)).err = "none")
    => SequencesConcatenated(
           FreshlyResolved(files, BaseOf(files, last.name)).doc,
           files[config_path(last.name)],
           last.doc)

\* C3 for the simple loader alone.
C3_SequencesAppend_simple == loader = "simple" => C3_SequencesAppend

\* The simple loader resolved a document whose `nodes` and
\* `models.checkpoints` are sequences in it and in its ancestor.
C3_Witness_simple ==
    /\ loader = "simple" /\ last.op = "load" /\ last.err = "none" /\ edits = 0
    /\ HasExtends(files, last.name)
    /\ Len(last.doc["nodes"].val) = 3
    /\ Len(last.doc["models"].val["checkpoints"].val) = 3

RECURSIVE MergeRules(_, _, _)
MergeRules(base, override, result) ==
    /\ DOMAIN result = DOMAIN base \cup DOMAIN override
    /\ \A key \in DOMAIN base \ DOMAIN override : result[key] = base[key]
    /\ \A key \in DOMAIN override \ DOMAIN base : result[key] = override[key]
    /\ \A key \in DOMAIN base \cap DOMAIN override :
        /\ (base[key].kind = "dict" /\ override[key].kind = "dict")
           => /\ result[key].kind = "dict"
              /\ MergeRules(base[key].val, override[key].val, result[key].val)
        /\ (base[key].kind = "str" /\ override[key].kind = "str")
           => result[key] = override[key]
        /\ base[key].kind # override[key].kind
           => result[key] = override[key]

\* C4: the result of _merge_dicts has the union of both key sets; a key of
\* one side only keeps that side's value; two mappings merge by the same
\* rules; two scalars or two values of different shapes give the override's
\* value.
C4_MergeDicts == mresult.done => MergeRules(mbase, moverride, mresult.val)

\* A merge whose arguments share a key holding mappings on both sides and a
\* key holding values of different shapes, and differ in their key sets
\* inside the nested mapping.
C4_Witness ==
    /\ mresult.done
    /\ DOMAIN mbase = {"k", "m"} /\ DOMAIN moverride = {"k", "m"}
    /\ mbase["k"].kind = "dict" /\ moverride["k"].kind = "dict"
    /\ DOMAIN mbase["k"].val = {"n"} /\ DOMAIN moverride["k"].val = {"p"}
    /\ mbase["m"].kind = "list" /\ moverride["m"].kind = "str"

\* The merge of the documents of a chain, folded from its root down.
RECURSIVE Folded(_, _)
Folded(fs, config_name) ==
    IF HasExtends(fs, config_name)
    THEN _merge_dicts(Folded(fs, BaseOf(fs, config_name)),
                      del_extends(fs[config_path(config_name)]))
    ELSE fs[config_path(config_name)]

\* C5: for a chain of extends references (name extends B, B extends C, ...)
\* in which every source exists (and no source changed since the loader was
\* built), load_config returns the merge folded from the root ancestor down
\* to the name, so the keys of every ancestor's document are keys of the
\* result.
C5_ChainFolded ==
    (/\ last.op = "load" /\ edits = 0
     /\ ChainStatus(files, last.name, {}) = "ok"
     /\ ChainLength(files, last.name) >= 3)
    => (last.err = "none" /\ last.doc = Folded(files, last.name))

\* C5 for the simple loader alone.
C5_ChainFolded_simple == loader = "simple" => C5_ChainFolded

\* The simple loader resolved a chain of three documents.
C5_Witness_simple ==
    /\ loader = "simple" /\ last.op = "load" /\ last.err = "none" /\ edits = 0
    /\ ChainStatus(files, last.name, {}) = "ok"
    /\ ChainLength(files, last.name) = 3
    /\ last.frames = 3

\* C6: when the `extends` of a document refers to a name with no source
\* (and no source changed since the loader was built), load_config fails and
\* returns no document, and validate_config returns False.
C6_MissingAncestor ==
    (/\ last.op \in {"load", "validate"} /\ edits = 0
     /\ HasExtends(files, last.name)
     /\ ~ path_exists(files, config_path(BaseOf(files, last.name))))
    => (last.err # "none" /\ ~ last.ret /\ last.doc = EmptyDict)

\* C6 for the simple loader alone.
C6_MissingAncestor_simple == loader = "simple" => C6_MissingAncestor

\* The simple loader was asked to validate a document whose ancestor has no
\* source.
C6_Witness_simple ==
    /\ loader = "simple" /\ last.op = "validate" /\ edits = 0
    /\ HasExtends(files, last.name)
    /\ ~ path_exists(files, config_path(BaseOf(files, last.name)))
    /\ last.err = "FileNotFoundError"

\* C7: load_config on an acyclic chain with all sources returns the resolved
\* document; on a chain that revisits a name it fails with a cycle error as
\* soon as the revisit happens, so it never enters more frames than there
\* are names plus one.
C7_CycleDetected ==
    (last.op = "load" /\ edits = 0)
    => /\ ChainStatus(files, last.name, {}) = "ok" => last.err = "none"
       /\ ChainStatus(files, last.name, {}) = "cycle"
          => (last.err = "CycleError" /\ last.frames <= Cardinality(Names) + 1)

\* The acyclic half of C7: an acyclic chain with all sources resolves.
C7_AcyclicResolves ==
    (last.op = "load" /\ edits = 0 /\ ChainStatus(files, last.name, {}) = "ok")
    => last.err = "none"

\* The simple loader was called on a cyclic chain and stopped only at the
\* recursion limit.
C7_Witness_recursion ==
    /\ last.op = "load" /\ ChainStatus(files, last.name, {}) = "cycle"
    /\ last.err = "RecursionError" /\ last.frames = RecursionLimit

\* C8: once a load_config call for a name has returned a document, every
\* later load_config call for that name returns the same document and
\* touches no source; the same holds for the calls validate_config makes and
\* for the calls load_config makes for ancestors.
C8_CachedForGood ==
    [][/\ (last'.op = "load" /\ last'.name \in DOMAIN resolved)
          => (/\ last'.err = "none"
              /\ last'.doc = resolved[last'.name]
              /\ last'.reads = {})
       /\ last'.op \in {"load", "validate"}
          => \A n \in DOMAIN last'.rets \cap DOMAIN resolved :
                 last'.rets[n] = resolved[n]]_vars

\* A name was loaded again from the cache after its source had been removed.
C8_Witness ==
    /\ last.op = "load" /\ last.err = "none" /\ last.reads = {}
    /\ edits > 0
    /\ ~ path_exists(files, config_path(last.name))
    /\ Cardinality(DOMAIN _cache) > 1

\* C9: load_config of a name that is not in the cache and whose source has
\* no `extends` key returns exactly the parsed source document.
C9_PlainDocumentUnchanged ==
    [][(/\ last'.op = "load"
        /\ last'.name \notin DOMAIN _cache
        /\ path_exists(files, config_path(last'.name))
        /\ ~ HasExtends(files, last'.name))
       => (last'.err = "none"
           /\ last'.doc = files[config_path(last'.name)])]_vars

\* A document without `extends` was read from its source and returned.
C9_Witness ==
    /\ last.op = "load" /\ last.err = "none"
    /\ last.reads = {config_path(last.name)}
    /\ path_exists(files, config_path(last.name))
    /\ ~ HasExtends(files, last.name)
    /\ last.doc = files[config_path(last.name)]

\* C10: a load_config call that fails returns no document and leaves the
\* cache exactly as it was before the call.
C10_FailureLeavesCache ==
    [][(last'.op = "load" /\ last'.err # "none")
       => (~ last'.ret /\ last'.doc = EmptyDict /\ _cache' = _cache)]_vars

\* load_config failed on an ancestor without source, with another name
\* already in the cache.
C10_Witness ==
    /\ last.op = "load" /\ last.err = "FileNotFoundError" /\ last.frames = 2
    /\ HasExtends(files, last.name)
    /\ _cache # <<>>

\* load_config failed on a cyclic chain.
C10_Witness_cycle ==
    /\ last.op = "load" /\ last.err = "RecursionError"
    /\ ChainStatus(files, last.name, {}) = "cycle"

\* C11: a document is immutable once cached: no call changes or drops an
\* entry the cache already holds, so resolving a descendant leaves the cached
\* document of each of its ancestors as it was.
C11_CachedImmutable ==
    [][\A n \in DOMAIN _cache : n \in DOMAIN _cache' /\ _cache'[n] = _cache[n]]_vars

\* A descendant was resolved by merging onto an ancestor that was served
\* from the cache, and the two cached documents differ.
C11_Witness ==
    /\ last.op = "load" /\ last.err = "none" /\ edits = 0
    /\ loader = "simple"
    /\ HasExtends(files, last.name)
    /\ last.frames = 2
    /\ last.reads = {config_path(last.name)}
    /\ BaseOf(files, last.name) \in DOMAIN _cache
    /\ _cache[BaseOf(files, last.name)] # _cache[last.name]

----------------------------------------------------------------------------
(* Validation: documents with missing fields and malformed entries *)

ValidateNames == {<<"a">>, <<"b">>}

NodesOptions ==
    {<<>>,
     "nodes" :> List(<<S("repoA")>>),
     "nodes" :> List(<<Dict([url |-> S("repoB"), branch |-> S("dev")])>>),
     "nodes" :> List(<<S("repoA"), Dict([branch |-> S("dev")])>>)}

ModelsOptions ==
    {<<>>,
     "models" :> Dict([checkpoints |-> List(<<Model("u0", "m0")>>)]),
     "models" :> Dict([checkpoints |-> List(<<Dict([url |-> S("u1")])>>)]),
     "models" :> Dict([checkpoints |-> List(<<Model("u0", "m0")>>),
                       loras |-> List(<<Dict([name |-> S("m2")]),
                                        Dict([url |-> S("u3")])>>)]),
     "models" :> List(<<Model("u0", "m0")>>)}

\* Documents with and without each required field, with well-formed and
\* malformed node and model entries.
ValidateDocs ==
    {f1 @@ f2 @@ f3 @@ f4 :
        f1 \in {<<>>, "name" :> S("v")},
        f2 \in {<<>>, "version" :> S("2.0")},
        f3 \in NodesOptions, f4 \in ModelsOptions}

\* config-a.yaml holds any of the documents, alone or extending b;
\* config-b.yaml is absent or the root document.
ValidateFileSystems ==
    {config_path(<<"a">>) :> d : d \in ValidateDocs}
    \cup {(config_path(<<"a">>) :> with_extends(d, <<"b">>))
             @@ (config_path(<<"b">>) :> BaseBody) : d \in ValidateDocs}
    \cup {config_path(<<"a">>) :> with_extends(d, <<"b">>) : d \in ValidateDocs}

InitValidate ==
    /\ loader \in {"simple", "hiyapyco"}
    /\ files \in ValidateFileSystems
    /\ _cache = <<>>
    /\ last = Outcome("init", <<>>, Raised("none", <<>>, {}, 0), FALSE, "none")
    /\ resolved = <<>>
    /\ edits = 0
    /\ mbase = EmptyDict /\ moverride = EmptyDict /\ mresult = NoMerge
    /\ IdleNodes /\ IdleModels /\ IdleBuild

NextValidate ==
    \/ \E n \in ValidateNames : LoadConfig(n)
    \/ \E n \in ValidateNames : ValidateConfig(n)

SpecValidate == InitValidate /\ [][NextValidate]_vars

\* The offences of a document against the rules of validation: a required
\* field it lacks, a mapping entry of nodes without url, an entry of a
\* models category without url or without name.
FieldOffences(doc) == {"name", "version"} \ DOMAIN doc

NodeOffences(doc) ==
    IF "nodes" \in DOMAIN doc /\ doc["nodes"].kind = "list"
    THEN {i \in 1..Len(doc["nodes"].val) :
             /\ doc["nodes"].val[i].kind = "dict"
             /\ "url" \notin DOMAIN doc["nodes"].val[i].val}
    ELSE {}

ModelOffences(doc) ==
    IF "models" \in DOMAIN doc /\ doc["models"].kind = "dict"
    THEN {e \in UNION {{<<c, i>> : i \in 1..Len(doc["models"].val[c].val)} :
                          c \in DOMAIN doc["models"].val} :
             LET model == doc["models"].val[e[1]].val[e[2]]
             IN  ~ (model.kind = "dict"
                    /\ {"url", "name"} \subseteq DOMAIN model.val)}
    ELSE {}

\* models, when present, is a mapping from category to sequence
ModelsShaped(doc) ==
    "models" \in DOMAIN doc
    => /\ doc["models"].kind = "dict"
       /\ \A c \in DOMAIN doc["models"].val : doc["models"].val[c].kind = "list"

OffenceCount(doc) ==
    Cardinality(FieldOffences(doc)) + Cardinality(NodeOffences(doc))
        + Cardinality(ModelOffences(doc))

\* C12: validate_config returns True exactly when the source exists and the
\* document the chain resolves to (every ancestor folded in, so a field an
\* ancestor supplies counts) has name and version, a url in every mapping
\* entry of nodes, and url and name in every entry of every models category.
C12_ValidateExactly ==
    (/\ last.op = "validate" /\ edits = 0
     /\ \/ ~ path_exists(files, config_path(last.name))
        \/ ChainStatus(files, last.name, {}) = "ok")
    => (last.ret
        <=> /\ path_exists(files, config_path(last.name))
            /\ OffenceCount(Folded(files, last.name)) = 0
            /\ ModelsShaped(Folded(files, last.name)))

\* The same for the simple loader.
C12_ValidateExactly_simple == (loader = "simple") => C12_ValidateExactly

\* C13: validation reports every offence of the resolved document before
\* returning False: as many errors are reported as the document has offences.
C13_EveryOffenceReported ==
    (/\ last.op = "validate"
     /\ last.err \in {"none", "Missing required field: name",
                      "Missing required field: version",
                      "Node missing URL", "Model missing required fields"})
    => (IF last.err = "none" THEN 0 ELSE 1) = OffenceCount(last.doc)

\* C15: validate_config only reads: it changes no source document and no
\* document already cached, and the document it inspects is, afterwards,
\* exactly what resolving the name yields; the cache may gain entries.
C15_ValidateReadOnly ==
    [][last'.op = "validate"
       => LET r == load_config(loader, files, _cache, last'.name)
          IN  /\ files' = files /\ loader' = loader
              /\ \A n \in DOMAIN _cache :
                     n \in DOMAIN _cache' /\ _cache'[n] = _cache[n]
              /\ (path_exists(files, config_path(last'.name)) /\ r.err = "none")
                 => /\ _cache' = r.cache
                    /\ last'.doc = r.doc]_vars

\* A document without the optional fields was validated and found valid,
\* and the cache gained it.
C15_Witness ==
    /\ last.op = "validate" /\ last.ret
    /\ {"nodes", "models"} \cap DOMAIN last.doc = {}
    /\ last.reads # {}
    /\ last.name \in DOMAIN _cache

----------------------------------------------------------------------------
(* Custom nodes: repositories, node entries, and the installer's operations *)

UrlA == <<"https://github.com", "/", "org", "/", "repoA">>

UrlAGit == UrlA \o <<".git">>

UrlB == <<"https://github.com", "/", "org", "/", "repoB", ".git">>

\* Another repository whose last path segment is also repoA.
UrlFork == <<"https://gitlab.com", "/", "fork", "/", "repoA", "/">>

Urls == {UrlA, UrlAGit, UrlB, UrlFork}

Branches == {None, Str(<<"dev">>)}

Commits == {None, Str(<<"c1">>)}

\* Exit status of the git commands of one install_node call. A call runs
\* git clone or git fetch, never both, so one status stands for whichever
\* of the two runs.
Outs ==
    {[clone |-> t, fetch |-> t, checkout |-> c] : t \in BOOLEAN, c \in BOOLEAN}

\* One exit status record for each install_node call of a loop.
OutSeqs(calls) == [1..Len(calls) -> Outs]

\* The nodes sequences of a document or package: URL strings and mappings
\* with url, branch and commit; one mapping has no url.
NodeLists ==
    {<<>>,
     <<Str(UrlA), Dict([url |-> Str(UrlB), branch |-> Str(<<"dev">>)])>>,
     <<Dict([url |-> Str(UrlAGit), branch |-> Str(<<"dev">>),
             commit |-> Str(<<"c1">>)])>>,
     <<Dict([url |-> Str(UrlB), commit |-> Str(<<"c1">>)]),
       Dict([branch |-> Str(<<"dev">>)])>>}

PackageConfigs == {<<>>} \cup {[custom_nodes |-> List(l)] : l \in NodeLists}

NodeDoc(l) == [name |-> S("n"), version |-> S("1.0"), nodes |-> List(l)]

\* config-a.yaml asks for a repository and a branch of another, config-b.yaml
\* for a commit and has an entry without url, config-c.yaml has no nodes.
NodeFileSystem ==
    (config_path(<<"a">>) :>
        NodeDoc(<<Str(UrlA), Dict([url |-> Str(UrlB), branch |-> Str(<<"dev">>)])>>))
    @@ (config_path(<<"b">>) :>
        NodeDoc(<<Dict([url |-> Str(UrlB), commit |-> Str(<<"c1">>)]),
                  Dict([branch |-> Str(<<"dev">>)])>>))
    @@ (config_path(<<"c">>) :> [name |-> S("n"), version |-> S("1.0")])

\* Names install_nodes is called with; config-d.yaml does not exist.
NodeConfigNames == {<<"a">>, <<"b">>, <<"c">>, <<"d">>}

\* NodeInstaller.remove_node
remove_node(dirs, node_name) ==
    IF ~ node_path_exists(dirs, node_name)
    THEN [ret |-> FALSE, dirs |-> dirs]
    ELSE [ret |-> TRUE, dirs |-> [n \in DOMAIN dirs \ {node_name} |-> dirs[n]]]

\* Successful clones per directory, after the commands of one operation.
clones_after(count, dirs, log) ==
    [d \in DOMAIN dirs |->
        (IF d \in DOMAIN count THEN count[d] ELSE 0)
        + Cardinality({i \in 1..Len(log) :
              log[i].cmd = "clone" /\ log[i].dir = d /\ log[i].ok})]

NodeOutcome(op, r) ==
    [op |-> op, ret |-> r.ret, err |-> r.err, exc |-> r.exc,
     entries |-> r.entries, log |-> r.log]

InitNodes ==
    /\ loader \in {"simple", "hiyapyco"}
    /\ files = NodeFileSystem
    /\ _cache = <<>>
    /\ last = Outcome("init", <<>>, Raised("none", <<>>, {}, 0), FALSE, "none")
    /\ resolved = <<>>
    /\ edits = 0
    /\ mbase = EmptyDict /\ moverride = EmptyDict /\ mresult = NoMerge
    /\ IdleNodes /\ IdleModels /\ IdleBuild

\* node_installer.install_node(url, branch=branch, commit=commit)
InstallNode(url, branch, commit, out) ==
    \E r \in {run_calls(nodes_dir,
                         <<NodeCall(url, branch, commit, branch, commit)>>,
                         <<out>>)} :
        /\ nodes_dir' = r.dirs
        /\ nlast' = NodeOutcome("install_node",
                        [ret |-> r.entries[1].ok, err |-> "none", exc |-> "none",
                         entries |-> r.entries, log |-> r.log])
        /\ clones' = clones_after(clones, r.dirs, r.log)
        /\ UNCHANGED <<loadervars, mergevars, modelvars,
                   buildvars>>

\* node_installer.install_nodes_from_package(package_config)
InstallNodesFromPackage(package_config, outs) ==
    \E r \in {install_nodes_from_package(nodes_dir, package_config, outs)} :
        /\ nodes_dir' = r.dirs
        /\ nlast' = NodeOutcome("install_nodes_from_package",
                        [ret |-> r.ret, err |-> "none", exc |-> "none",
                         entries |-> r.entries, log |-> r.log])
        /\ clones' = clones_after(clones, r.dirs, r.log)
        /\ UNCHANGED <<loadervars, mergevars, modelvars,
                   buildvars>>

\* builder.install_nodes(config_name)
BuilderInstallNodes(config_name, outs) ==
    \E r \in {install_nodes(loader, files, _cache, config_name, nodes_dir, outs)} :
        /\ nodes_dir' = r.dirs
        /\ _cache' = r.cache
        /\ nlast' = NodeOutcome("install_nodes", r)
        /\ clones' = clones_after(clones, r.dirs, r.log)
        /\ UNCHANGED <<loader, files, last, resolved, edits, mergevars, modelvars,
                   buildvars>>

\* node_installer.remove_node(node_name)
RemoveNode(node_name) ==
    \E r \in {remove_node(nodes_dir, node_name)} :
        /\ nodes_dir' = r.dirs
        /\ nlast' = NodeOutcome("remove_node",
                        [ret |-> r.ret, err |-> "none", exc |-> "none",
                         entries |-> <<>>, log |-> <<>>])
        /\ clones' = [d \in DOMAIN r.dirs |-> clones[d]]
        /\ UNCHANGED <<loadervars, mergevars, modelvars,
                   buildvars>>

NodeDirs == {repo_name(url) : url \in Urls}

NextNodes ==
    \/ \E url \in Urls, branch \in Branches, commit \in Commits, out \in Outs :
           InstallNode(url, branch, commit, out)
    \/ \E d \in NodeDirs : RemoveNode(d)

SpecNodes == InitNodes /\ [][NextNodes]_vars

\* The install_node calls install_nodes_from_package makes for a package.
calls_of_package(package_config) ==
    IF "custom_nodes" \in DOMAIN package_config
    THEN package_calls(package_config["custom_nodes"].val)
    ELSE <<>>

\* The install_node calls builder.install_nodes makes for a name.
calls_of_config(config_name) ==
    LET r == load_config(loader, files, _cache, config_name)
    IN  IF path_exists(files, config_path(config_name)) /\ r.err = "none"
           /\ "nodes" \in DOMAIN r.doc
        THEN builder_calls(r.doc["nodes"].val).calls
        ELSE <<>>

NextNodeLists ==
    \/ \E package_config \in PackageConfigs :
         \E outs \in OutSeqs(calls_of_package(package_config)) :
           InstallNodesFromPackage(package_config, outs)
    \/ \E n \in NodeConfigNames :
         \E outs \in OutSeqs(calls_of_config(n)) : BuilderInstallNodes(n, outs)
    \/ \E d \in NodeDirs : RemoveNode(d)

SpecNodeLists == InitNodes /\ [][NextNodeLists]_vars

\* The refs a node entry asks for.
RequestedRefs(e) ==
    (IF truthy(e.branch) THEN {e.branch.val} ELSE {})
    \cup (IF truthy(e.commit) THEN {e.commit.val} ELSE {})

\* C16: install_node never clones into a directory that exists: it updates
\* in place (git fetch first, then at most a checkout and a pull), and no
\* directory is cloned successfully twice unless remove_node removed it in
\* between.
C16_CloneOnce ==
    [][/\ (/\ nlast'.op = "install_node"
           /\ repo_name(nlast'.entries[1].url) \in DOMAIN nodes_dir)
          => /\ nlast'.log[1].cmd = "fetch"
             /\ \A i \in 2..Len(nlast'.log) :
                    nlast'.log[i].cmd \in {"checkout", "pull"}
             /\ clones' = clones
       /\ \A d \in DOMAIN clones' : clones'[d] <= 1]_vars

\* install_node found the directory, fetched and checked out the commit asked
\* for; the directory was cloned once.
C16_Witness ==
    /\ nlast.op = "install_node" /\ nlast.ret
    /\ nlast.entries[1].existed
    /\ Len(nlast.log) = 2 /\ nlast.log[2].cmd = "checkout" /\ nlast.log[2].ok
    /\ clones[repo_name(nlast.entries[1].url)] = 1

\* C17: whenever install_node reports success for an entry that asks for a
\* branch or a commit, the directory is at a ref the entry asks for.
C17_CheckedOutAsRequested ==
    nlast.op \in {"install_node", "install_nodes_from_package", "install_nodes"}
    => \A i \in 1..Len(nlast.entries) :
           (nlast.entries[i].ok /\ RequestedRefs(nlast.entries[i]) # {})
           => nlast.entries[i].head \in RequestedRefs(nlast.entries[i])

\* The same for a first install through install_node or
\* install_nodes_from_package, where the directory was not there before.
C17_CheckedOutAsRequested_fresh ==
    nlast.op \in {"install_node", "install_nodes_from_package"}
    => \A i \in 1..Len(nlast.entries) :
           (/\ nlast.entries[i].ok /\ ~ nlast.entries[i].existed
            /\ RequestedRefs(nlast.entries[i]) # {})
           => nlast.entries[i].head \in RequestedRefs(nlast.entries[i])

\* Directories the entries of the last operation cloned or updated.
ProcessedDirs ==
    {repo_name(nlast.entries[i].url) : i \in 1..Len(nlast.entries)}
        \cap DOMAIN nodes_dir

\* C18: after either entry point has processed a nodes sequence, the
\* requirements.txt of each directory it cloned or updated has been
\* installed, after the last git command, also when an entry failed.
C18_RequirementsInstalled ==
    (/\ nlast.op \in {"install_nodes_from_package", "install_nodes"}
     /\ nlast.err = "none")
    => \A d \in ProcessedDirs :
           nodes_dir[d].requirements
           => \E i \in 1..Len(nlast.log) :
                  /\ nlast.log[i].cmd = "pip" /\ nlast.log[i].dir = d
                  /\ \A j \in 1..Len(nlast.log) :
                         nlast.log[j].cmd # "pip" => j < i

\* The same for install_nodes_from_package when every entry succeeded.
C18_RequirementsInstalled_package ==
    (nlast.op = "install_nodes_from_package" /\ nlast.ret)
    => C18_RequirementsInstalled

\* C14: install_nodes returns a boolean and raises nothing, and returns
\* False whenever resolution or the installation of an entry failed.
C14_ErrorsBecomeFalse ==
    nlast.op = "install_nodes"
    => /\ nlast.exc = "none"
       /\ nlast.ret
          => /\ nlast.err = "none"
             /\ \A i \in 1..Len(nlast.entries) : nlast.entries[i].ok

\* No exception leaves install_nodes, and a resolution failure or a mapping
\* entry without url gives False.
C14_NoExceptionEscapes ==
    nlast.op = "install_nodes"
    => /\ nlast.exc = "none"
       /\ nlast.err # "none" => ~ nlast.ret

\* No exception leaves validate_config either, and every error it logs
\* comes with False.
C14_ValidateNeverRaises ==
    last.op = "validate"
    => /\ last.exc = "none"
       /\ last.err # "none" => ~ last.ret

----------------------------------------------------------------------------
(* Model downloads: URLs, output directories, and what the network does *)

\* A URL whose path has an extension and one whose path has none.
ModelUrls ==
    {Url("https://huggingface.co", <<"/", "org", "/", "a", ".", "ckpt">>),
     Url("https://host", <<"/", "files", "/", "b">>)}

ModelNames == {<<"m0">>}

OutputDirs == {<<"checkpoints">>, <<"loras">>}

DownloadOuts ==
    [copy_hit : BOOLEAN, net : {"error", "cut_empty", "cut", "complete"},
     copy_final : BOOLEAN]

\* ModelManager.__init__: with or without the network volume, an empty cache.
InitModels ==
    /\ loader = "simple"
    /\ files = <<>>
    /\ _cache = <<>>
    /\ last = Outcome("init", <<>>, Raised("none", <<>>, {}, 0), FALSE, "none")
    /\ resolved = <<>>
    /\ edits = 0
    /\ mbase = EmptyDict /\ moverride = EmptyDict /\ mresult = NoMerge
    /\ IdleNodes /\ IdleBuild
    /\ using_network_volume \in BOOLEAN
    /\ cache_dir = <<>> /\ outputs = <<>> /\ mlast = NoModelOp

\* model_manager._download_direct(url, name, output_dir)
DownloadDirect(url, name, dir, o) ==
    \E r \in {_download_direct(using_network_volume, cache_dir, outputs,
                               url, name, dir, None, o)} :
        /\ cache_dir' = r.cache
        /\ outputs' = r.out
        /\ mlast' = [op |-> "download_direct", url |-> url, ret |-> r.ret,
                     requests |-> r.requests, served |-> r.served,
                     output_path |-> r.output_path,
                     cache_path |-> r.cache_path, copy_hit |-> o.copy_hit]
        /\ UNCHANGED <<loadervars, mergevars, nodevars, using_network_volume,
                   buildvars>>

NextModels ==
    \E url \in ModelUrls, name \in ModelNames, dir \in OutputDirs,
       o \in DownloadOuts : DownloadDirect(url, name, dir, o)

SpecModels == InitModels /\ [][NextModels]_vars

\* C19: the destination and the cache are consulted before the network: when
\* the destination file exists, or a non-empty cache entry exists and the
\* copy to the destination succeeds, the call returns True without a network
\* request; and it never issues more than one request.
C19_CacheBeforeNetwork ==
    [][mlast'.op = "download_direct"
       => /\ (\/ mlast'.output_path \in DOMAIN outputs
              \/ /\ mlast'.cache_path \in DOMAIN cache_dir
                 /\ cache_dir[mlast'.cache_path].size # "zero"
                 /\ mlast'.copy_hit)
             => (mlast'.ret /\ mlast'.requests = <<>>
                 /\ mlast'.output_path \in DOMAIN outputs')
          /\ Len(mlast'.requests) <= 1]_vars

\* A request was served from the cache into a second output directory.
C19_Witness ==
    /\ mlast.op = "download_direct" /\ mlast.ret /\ mlast.requests = <<>>
    /\ mlast.served = "cache"
    /\ \E p \in DOMAIN outputs : p # mlast.output_path

\* C20: whenever _download_direct completes a network transfer and returns
\* True, the cache holds a non-empty entry for the request afterwards, with
\* the network volume and with the local fallback.
C20_CachePopulated ==
    (mlast.op = "download_direct" /\ mlast.ret /\ mlast.requests # <<>>)
    => /\ mlast.cache_path \in DOMAIN cache_dir
       /\ cache_dir[mlast.cache_path].size # "zero"

\* The same with the cache on the network volume.
C20_CachePopulated_network_volume ==
    using_network_volume => C20_CachePopulated

----------------------------------------------------------------------------
(* Model downloads under differing file names *)

\* One URL, asked for under its name-derived file name or an explicit one.
NamedUrl == Url("https://huggingface.co", <<"/", "org", "/", "a", ".", "ckpt">>)

Filenames == {None, Str(<<"f", ".bin">>)}

\* model_manager._download_direct(url, name, output_dir, filename)
DownloadDirectAs(url, name, dir, filename, o) ==
    \E r \in {_download_direct(using_network_volume, cache_dir, outputs,
                               url, name, dir, filename, o)} :
        /\ cache_dir' = r.cache
        /\ outputs' = r.out
        /\ mlast' = [op |-> "download_direct", url |-> url, ret |-> r.ret,
                     requests |-> r.requests, served |-> r.served,
                     output_path |-> r.output_path,
                     cache_path |-> r.cache_path, copy_hit |-> o.copy_hit]
        /\ UNCHANGED <<loadervars, mergevars, nodevars, using_network_volume,
                   buildvars>>

NextModelNames ==
    \E name \in ModelNames, dir \in OutputDirs, filename \in Filenames,
       o \in DownloadOuts : DownloadDirectAs(NamedUrl, name, dir, filename, o)

SpecModelNames == InitModels /\ [][NextModelNames]_vars

\* C21: the cache is keyed by the URL alone: when the cache holds a complete
\* entry written for the URL of a request (under whatever file name) and the
\* copy to the destination succeeds, the request issues no network request.
C21_KeyedByUrl ==
    [][(/\ mlast'.op = "download_direct"
        /\ mlast'.copy_hit
        /\ \E c \in DOMAIN cache_dir :
               c[1] = url_hash(mlast'.url) /\ cache_dir[c].size = "full")
       => mlast'.requests = <<>>]_vars

\* The same when the entry was written under the file name of the request.
C21_KeyedByUrl_same_name ==
    [][(/\ mlast'.op = "download_direct"
        /\ mlast'.copy_hit
        /\ mlast'.cache_path \in DOMAIN cache_dir
        /\ cache_dir[mlast'.cache_path].size = "full")
       => mlast'.requests = <<>>]_vars

\* C28: every file at a destination is the complete result of a transfer
\* that finished without error: a transfer cut off midway leaves no partial
\* file at a destination, directly or through the cache.
C28_DestinationsComplete ==
    \A p \in DOMAIN outputs : outputs[p].size = "full"

\* The same with the local fallback, where the broken-off file is the
\* destination itself and the handler unlinks it.
C28_DestinationsComplete_local ==
    ~ using_network_volume => C28_DestinationsComplete

\* C29: whenever install_node(url) returns True, the target directory holds
\* a clone of the repository at url.
C29_DirectoryHoldsUrl ==
    (nlast.op = "install_node" /\ nlast.ret)
    => LET url == nlast.entries[1].url
       IN  /\ repo_name(url) \in DOMAIN nodes_dir
           /\ nodes_dir[repo_name(url)].origin = clone_url(url)

\* The same while only one repository is asked for under each directory name
\* (UrlA and UrlAGit are one repository).
C29_DirectoryHoldsUrl_one_repository ==
    (\A d \in DOMAIN nodes_dir : nodes_dir[d].origin # clone_url(UrlFork))
    => (nlast.entries # <<>> /\ nlast.entries[1].url # UrlFork
        => C29_DirectoryHoldsUrl)

----------------------------------------------------------------------------
(* Assembling a variant: ConfigBuilder.build and ComfyUIBuilder.build_config *)

\* The steps of a build that write files, and "none".
WriteFailures ==
    {"none", "nodes", "models", "requirements", "config_file", "workflows",
     "dockerfile", "startup_script"}

\* Documents with and without each section the assembler handles; without
\* version a document does not validate.  One workflow listed is missing
\* from workflows_dir and one requirement is listed twice.
BuildDocs ==
    {("name" :> S("v")) @@ f1 @@ f2 @@ f3 @@ f4 @@ f5 @@ f6 :
        f1 \in {<<>>, "version" :> S("2.0")},
        f2 \in {<<>>, "nodes" :> List(<<S("repoA")>>)},
        f3 \in {<<>>, "models" :>
                        Dict([checkpoints |-> List(<<Model("u0", "m0")>>)])},
        f4 \in {<<>>, "requirements" :>
                        List(<<S("r1"), S("r2"), S("r1")>>)},
        f5 \in {<<>>, "workflows" :> List(<<Str(<<"w1", ".json">>),
                                            Str(<<"w2", ".json">>)>>)},
        f6 \in {<<>>, "generate_dockerfile" :> Bool(TRUE)}}

BuildConfigNames == {<<"a">>, <<"b">>}

\* config-a.yaml holds one of the documents, config-b.yaml does not exist;
\* the output directory starts empty.
InitBuild ==
    /\ loader \in {"simple", "hiyapyco"}
    /\ files \in {config_path(<<"a">>) :> d : d \in BuildDocs}
    /\ _cache = <<>>
    /\ last = Outcome("init", <<>>, Raised("none", <<>>, {}, 0), FALSE, "none")
    /\ resolved = <<>>
    /\ edits = 0
    /\ mbase = EmptyDict /\ moverride = EmptyDict /\ mresult = NoMerge
    /\ IdleNodes /\ IdleModels /\ IdleBuild

\* config_builder.build(config, config_name, output_dir) on the document
\* of an existing config file.
Build(config_name, fail) ==
    /\ config_path(config_name) \in DOMAIN files
    /\ \E config \in {files[config_path(config_name)]} :
       \E b \in {build(config, config_name, build_dir, fail)} :
        /\ build_dir' = b.files
        /\ blast' = [op |-> "build", name |-> config_name, config |-> config,
                     fail |-> fail, ret |-> b.ret, err |-> b.err,
                     steps |-> b.steps, failed |-> b.failed]
        /\ UNCHANGED <<loadervars, mergevars, nodevars, modelvars>>

\* builder.build_config(config_name, output_dir)
BuildConfig(config_name, fail) ==
    \E b \in {build_config(loader, files, _cache, config_name,
                           build_dir, fail)} :
        /\ _cache' = b.cache
        /\ build_dir' = b.files
        /\ blast' = [op |-> "build_config", name |-> config_name,
                     config |-> b.config, fail |-> fail, ret |-> b.ret,
                     err |-> b.err, steps |-> b.steps, failed |-> b.failed]
        /\ UNCHANGED <<loader, files, last, resolved, edits, mergevars,
                       nodevars, modelvars>>

NextBuild ==
    \E config_name \in BuildConfigNames, fail \in WriteFailures :
        \/ Build(config_name, fail)
        \/ BuildConfig(config_name, fail)

SpecBuild == InitBuild /\ [][NextBuild]_vars

\* The steps a build of the document goes through when none fails.
StepsOf(config) ==
    <<"nodes", "models", "requirements", "config_file", "workflows">>
    \o (IF py_bool(config_get(config, "generate_dockerfile", Bool(FALSE)))
        THEN <<"dockerfile">> ELSE <<>>)
    \o <<"startup_script">>

\* The file a non-empty section of the document is written to.
SectionFiles(config) ==
    LET sections == {<<"nodes", <<"custom_nodes.json">>>>,
                     <<"models", <<"models.json">>>>,
                     <<"requirements", <<"requirements.txt">>>>}
    IN  {q[2] : q \in {p \in sections :
                          py_bool(config_get(config, p[1], None))}}

\* C22: a build runs its steps in the fixed order nodes, models,
\* requirements, config file, workflows, optional Dockerfile, startup
\* script; a step that fails is the last one run and the build returns
\* False; a build that returns True has run every step and the directory
\* holds config.yaml, startup.sh and the file of every non-empty section.
C22_BuildOrder ==
    blast.op \in {"build", "build_config"} /\ blast.config # EmptyDict =>
        LET expected == StepsOf(blast.config)
        IN  /\ Len(blast.steps) <= Len(expected)
            /\ blast.steps = SubSeq(expected, 1, Len(blast.steps))
            /\ blast.failed # "none" =>
                 /\ ~ blast.ret
                 /\ blast.steps # <<>>
                 /\ blast.steps[Len(blast.steps)] = blast.failed
            /\ blast.ret =>
                 /\ blast.steps = expected
                 /\ {<<"config.yaml">>, <<"startup.sh">>}
                        \cup SectionFiles(blast.config) \subseteq DOMAIN build_dir
                 /\ build_dir[<<"config.yaml">>].val["name"] = Str(blast.name)

\* A first build of a document with nodes, models and requirements,
\* assembled into an empty directory, succeeded.
C22_Witness ==
    /\ blast.op = "build" /\ blast.ret
    /\ {"nodes", "models", "requirements"} \subseteq DOMAIN blast.config
    /\ blast.steps = StepsOf(blast.config)
    /\ <<"custom_nodes.json">> \in DOMAIN build_dir

\* C22, failing side: a build stopped at the step whose write failed.
C22_Witness_failed ==
    /\ blast.op = "build" /\ ~ blast.ret /\ blast.failed = "models"
    /\ blast.steps = <<"nodes", "models">>

\* C23: a build of a document with generate_dockerfile true, none of whose
\* other steps fails, writes the Dockerfile, generates the startup script
\* and returns True.
C23_DockerfileWritten ==
    (/\ blast.op = "build"
     /\ py_bool(config_get(blast.config, "generate_dockerfile", Bool(FALSE)))
     /\ blast.fail = "none")
    => /\ blast.ret
       /\ <<"Dockerfile">> \in DOMAIN build_dir
       /\ <<"startup.sh">> \in DOMAIN build_dir

\* C23 without the option: the build succeeds when no write fails.
C23_DockerfileWritten_not_requested ==
    (/\ blast.op = "build"
     /\ ~ py_bool(config_get(blast.config, "generate_dockerfile", Bool(FALSE)))
     /\ blast.fail = "none")
    => blast.ret /\ <<"startup.sh">> \in DOMAIN build_dir

\* C25: build_config hands the document to the assembler only after
\* validate_config returned True for the name; when validation fails it
\* returns False, no step runs and nothing is written.
C25_BuildAfterValidation ==
    [][blast'.op = "build_config"
       => LET v == validate_config(loader, files, _cache, blast'.name)
          IN  /\ blast'.steps # <<>> => v.ret
              /\ ~ v.ret => /\ ~ blast'.ret
                            /\ blast'.steps = <<>>
                            /\ build_dir' = build_dir]_vars

\* build_config refused a document that does not validate.
C25_Witness ==
    /\ blast.op = "build_config" /\ blast.name = <<"a">>
    /\ "version" \notin DOMAIN files[config_path(<<"a">>)]
    /\ ~ blast.ret /\ blast.err = "Missing required field: version"

\* build_config assembled a document that validates.
C25_Witness_built ==
    blast.op = "build_config" /\ blast.ret /\ blast.steps # <<>>

----------------------------------------------------------------------------
(* Loading the builder module and creating configs *)

CreateNames == {<<"a">>, <<"b">>, <<"base">>}

BaseImages == {S("effekt/runpod-comfyui:base"), S("custom:image")}

\* A root document with nodes and requirements.
CreateBase ==
    [name |-> S("base"), version |-> S("1.0"),
     nodes |-> List(<<S("repoA"), S("repoB")>>),
     requirements |-> List(<<S("r1")>>)]

\* The config directory is empty, or holds the base, or the base and a
\* hand-written config-a.yaml.
CreateFileSystems ==
    {<<>>,
     config_path(<<"base">>) :> CreateBase,
     (config_path(<<"base">>) :> CreateBase)
        @@ (config_path(<<"a">>) :> with_extends(ChildBody, <<"base">>))}

\* The builder module has not been loaded yet.
InitCreate ==
    /\ loader = "unbound"
    /\ files \in CreateFileSystems
    /\ _cache = <<>>
    /\ last = Outcome("init", <<>>, Raised("none", <<>>, {}, 0), FALSE, "none")
    /\ resolved = <<>>
    /\ edits = 0
    /\ mbase = EmptyDict /\ moverride = EmptyDict /\ mresult = NoMerge
    /\ IdleNodes /\ IdleModels /\ IdleBuild

\* import builder, with the hiyapyco package installed or not
ImportBuilder(hiyapyco_available) ==
    /\ last.op = "init"
    /\ \E m \in {import_builder(hiyapyco_available)} :
        /\ loader' = m.ConfigLoader
        /\ last' = [op |-> "import", name |-> <<>>,
                    hiyapyco_available |-> hiyapyco_available,
                    ret |-> m.loaded, err |-> m.exc, exc |-> m.exc,
                    log |-> m.log]
    /\ UNCHANGED <<files, _cache, resolved, edits, mergevars, nodevars,
                   modelvars, buildvars>>

\* builder.create_config(name, base_image)
CreateConfig(name, base_image) ==
    \E r \in {create_config(files, name, base_image)} :
        /\ files' = r.files
        /\ last' = Outcome("create", name, Raised("none", <<>>, {}, 0),
                           r.ret, "none")
        /\ UNCHANGED <<loader, _cache, resolved, edits, mergevars, nodevars,
                       modelvars, buildvars>>

\* The operations of a ComfyUIBuilder exist once the module has loaded.
NextCreate ==
    \/ \E hiyapyco_available \in BOOLEAN : ImportBuilder(hiyapyco_available)
    \/ /\ loader \in {"simple", "hiyapyco"}
       /\ \/ \E name \in CreateNames, base_image \in BaseImages :
                CreateConfig(name, base_image)
          \/ \E name \in CreateNames : LoadConfig(name)

SpecCreate == InitCreate /\ [][NextCreate]_vars

\* A source document as create_config writes it.
IsTemplate(doc) ==
    \E name \in CreateNames, base_image \in BaseImages :
        doc = config_template(name, base_image)

\* A load resolved a created document, not cached before, against a base
\* that is a root document.
CreatedResolved ==
    /\ last'.op = "load" /\ last'.err = "none"
    /\ last'.name \notin DOMAIN _cache
    /\ path_exists(files, config_path(last'.name))
    /\ IsTemplate(files[config_path(last'.name)])
    /\ path_exists(files, config_path(<<"base">>))
    /\ "extends" \notin DOMAIN files[config_path(<<"base">>)]

\* nodes and requirements of the resolved document are the base's items
\* followed by the marker.
MarkerAppended ==
    \A key \in {"nodes", "requirements"} :
        /\ key \in DOMAIN last'.doc
        /\ last'.doc[key] =
             List(files[config_path(<<"base">>)][key].val \o <<IncludeBase>>)

\* C24: the merge does not interpret the `!include base` marker: a document
\* written by create_config and resolved against an existing base has, in
\* nodes and in requirements, the base's items followed by the marker as a
\* literal element.
C24_MarkerLiteral == [][CreatedResolved => MarkerAppended]_vars

\* C24 for the simple loader alone: in every config directory reached,
\* the simple loader resolves each created document to the base's items
\* followed by the marker.
C24_MarkerLiteral_simple ==
    \A name \in CreateNames :
        (/\ path_exists(files, config_path(name))
         /\ IsTemplate(files[config_path(name)])
         /\ path_exists(files, config_path(<<"base">>))
         /\ "extends" \notin DOMAIN files[config_path(<<"base">>)])
        => LET r == load_config("simple", files, <<>>, name)
           IN  /\ r.err = "none"
               /\ \A key \in {"nodes", "requirements"} :
                    r.doc[key] =
                      List(files[config_path(<<"base">>)][key].val
                           \o <<IncludeBase>>)

\* C24 without the base's items: under either loader the marker is an
\* element of both lists and is the last one.
C24_MarkerLiteral_kept ==
    [][CreatedResolved =>
         \A key \in {"nodes", "requirements"} :
            /\ key \in DOMAIN last'.doc /\ last'.doc[key].kind = "list"
            /\ last'.doc[key].val # <<>>
            /\ last'.doc[key].val[Len(last'.doc[key].val)] = IncludeBase]_vars

\* C26: create_config never overwrites: for a name whose source document
\* exists it returns False and leaves the config directory as it is;
\* otherwise it returns True and adds the new document, leaving the others
\* as they are; the second of two consecutive calls for one name returns
\* False and keeps what the first wrote.
C26_NeverOverwrites ==
    [][last'.op = "create" =>
         LET path == config_path(last'.name)
         IN  /\ IF path \in DOMAIN files
                THEN ~ last'.ret /\ files' = files
                ELSE /\ last'.ret
                     /\ DOMAIN files' = DOMAIN files \cup {path}
                     /\ \A p \in DOMAIN files : files'[p] = files[p]
                     /\ IsTemplate(files'[path])
                     /\ files'[path]["name"] = Str(last'.name)
             /\ (last.op = "create" /\ last.name = last'.name)
                => ~ last'.ret /\ files' = files]_vars

\* A second create_config for a name just created was refused and the
\* document of the first call, with its base image, is still there.
C26_Witness ==
    /\ last.op = "create" /\ ~ last.ret /\ last.name = <<"b">>
    /\ files[config_path(<<"b">>)] =
         config_template(<<"b">>, S("custom:image"))

\* C27: when the HiYaPyCo loader cannot be imported, the builder module
\* finishes loading with the simple ConfigLoader bound.
C27_FallbackBound ==
    [][(last'.op = "import" /\ ~ last'.hiyapyco_available)
       => last'.ret /\ loader' = "simple"]_vars

\* C27 with the package installed: the module loads with the HiYaPyCo
\* loader bound.
C27_FallbackBound_available ==
    [][(last'.op = "import" /\ last'.hiyapyco_available)
       => last'.ret /\ loader' = "hiyapyco"]_vars

====
